---- MODULE Spec2Model ----
(***************************************************************************)
(* The movies REST API of mflix/api/movies.py as a state machine.  One     *)
(* request is handled at a time: a handler action takes the router from    *)
(* "idle" to "done", leaving the request, the data-layer outcomes it met,  *)
(* the data-layer calls it made and its response in the state; Finish      *)
(* drops the request's stack-local data again.  The only state that        *)
(* survives a request is the data layer's comment collection.              *)
(*                                                                         *)
(* Encodings.  A query-string value is a tuple of one-character strings.   *)
(* A JSON body value is a record [type, val].  A Python dict is a          *)
(* function from key strings to values.  str(e) of an exception is the     *)
(* record [type, field] of the exception's type and the field it names.    *)
(* datetime.now() is not modelled: no handler reads it back.               *)
(***************************************************************************)
EXTENDS Integers, Sequences, FiniteSets, TLC

VARIABLES pc, req, dl, calls, resp, comments, nextId

vars == <<pc, req, dl, calls, resp, comments, nextId>>

(***************************************************************************)
(* Bounds and program constants                                            *)
(***************************************************************************)
MaxComments == 1

MOVIES_PER_PAGE == 20

HTTP_OK == 200

HTTP_BAD_REQUEST == 400

(***************************************************************************)
(* Query-string values                                                     *)
(***************************************************************************)
Absent == [present |-> FALSE, chars |-> <<>>]

Given(cs) == [present |-> TRUE, chars |-> cs]

Digits == {"0", "1", "2", "3", "4", "5", "6", "7", "8", "9"}

DigitVal(c) ==
    CASE c = "0" -> 0 [] c = "1" -> 1 [] c = "2" -> 2 [] c = "3" -> 3
      [] c = "4" -> 4 [] c = "5" -> 5 [] c = "6" -> 6 [] c = "7" -> 7
      [] c = "8" -> 8 [] c = "9" -> 9

\* str.strip() as int() applies it: leading and trailing blanks go.
RECURSIVE LStrip(_)
LStrip(s) == IF s # <<>> /\ Head(s) = " " THEN LStrip(Tail(s)) ELSE s

RECURSIVE RStrip(_)
RStrip(s) ==
    IF s # <<>> /\ s[Len(s)] = " " THEN RStrip(SubSeq(s, 1, Len(s) - 1)) ELSE s

Strip(s) == RStrip(LStrip(s))

Unsigned(s) == IF s # <<>> /\ Head(s) \in {"+", "-"} THEN Tail(s) ELSE s

\* The digits part of an integer literal: digits, single underscores between.
DigitsOk(s) ==
    /\ s # <<>>
    /\ \A i \in 1..Len(s) : s[i] \in Digits \cup {"_"}
    /\ s[1] # "_"
    /\ s[Len(s)] # "_"
    /\ \A i \in 1..(Len(s) - 1) : ~(s[i] = "_" /\ s[i + 1] = "_")

RECURSIVE Magnitude(_, _)
Magnitude(s, acc) ==
    IF s = <<>> THEN acc
    ELSE IF Head(s) = "_" THEN Magnitude(Tail(s), acc)
    ELSE Magnitude(Tail(s), 10 * acc + DigitVal(Head(s)))

\* int(page) raises ValueError exactly when IntOk is false.
IntOk(s) == DigitsOk(Unsigned(Strip(s)))

IntVal(s) ==
    LET t == Strip(s)
        m == Magnitude(Unsigned(t), 0)
    IN IF Head(t) = "-" THEN 0 - m ELSE m

\* Faulty variant of ParsePage: pages counted from one, so no page means page 1.
ParsePageOneIndexed(page) ==
    IF ~page.present THEN 1
    ELSE IF IntOk(page.chars) THEN IntVal(page.chars)
    ELSE 1

\* The try/except around request.args.get('page') and int(page).
ParsePage(page) ==
    IF ~page.present THEN 0
    ELSE IF IntOk(page.chars) THEN IntVal(page.chars)
    ELSE 0

(***************************************************************************)
(* Dicts                                                                   *)
(***************************************************************************)
EmptyDict == [k \in {} |-> ""]

\* {**base, **extra}: a key of extra replaces the same key of base.
Merge(base, extra) == extra @@ base

KeyIf(cond, key, val) == IF cond THEN key :> val ELSE EmptyDict

(***************************************************************************)
(* Responses and exceptions                                                *)
(***************************************************************************)
Exc(type, field) == [type |-> type, field |-> field]

\* What the data layer raises when it fails.
DbError == Exc("Exception", "")

\* None.get(...): the receiver is not a dict.
AttributeError == Exc("AttributeError", "")

NoResp == [kind |-> "none", code |-> 0, body |-> EmptyDict]

\* jsonify(body), code
Json(body, code) == [kind |-> "json", code |-> code, body |-> body]

\* An exception that leaves the handler: Flask answers it with a 500.
Propagate(e) == [kind |-> "exception", code |-> 500, body |-> "error" :> e]

Fail(e) == ("status" :> "fail") @@ ("error" :> e)

Out(cs, r) == [calls |-> cs, resp |-> r]

(***************************************************************************)
(* Requests                                                                *)
(***************************************************************************)
JNull == [type |-> "null", val |-> ""]

JNum == [type |-> "int", val |-> "42"]

JStr(s) == [type |-> "str", val |-> s]

NoBody ==
    [obj |-> FALSE, movie_id |-> JNull, comment |-> JNull, comment_id |-> JNull,
     updated_comment |-> JNull, email |-> JNull]

NoRequest ==
    [handler |-> "none", page |-> Absent, cast |-> <<>>, genre |-> <<>>,
     text |-> Absent, id |-> "", countries |-> <<>>, email |-> "", body |-> NoBody]

PageArgs ==
    {Absent, Given(<<>>), Given(<<"0">>), Given(<<"1", "2">>),
     Given(<<"-", "1">>), Given(<<"+", "3">>), Given(<<" ", "2", " ">>),
     Given(<<"1", "_", "0">>), Given(<<"1", "_">>), Given(<<"-">>),
     Given(<<"1", ".", "5">>), Given(<<"a", "b", "c">>)}

\* getlist('cast'): "?cast=" gives the one-element list [''].
CastArgs == {<<>>, <<"">>, <<"Tom Hanks", "Meg Ryan">>}

GenreArgs == {<<>>, <<"Comedy">>}

TextArgs == {Absent, Given(<<>>), Given(<<"l", "o", "v", "e">>)}

CountryArgs == {<<>>, <<"Kosovo">>, <<"Russia", "Japan">>}

MovieIds == {"m1", "m9"}

\* The movies the catalog holds; "m9" identifies none.
Catalog == {"m1"}

(***************************************************************************)
(* Data-layer outcomes met by one request (mflix.db is not part of the     *)
(* handlers: each call returns or raises as the data layer decides)        *)
(***************************************************************************)
DefaultConfig == [pool_size |-> "50", w_concern |-> EmptyDict, user_info |-> EmptyDict]

NoOutcome ==
    [query |-> "ok", total |-> "57", look |-> "found", mut |-> "ok",
     config |-> DefaultConfig]

QueryOutcomes == {[NoOutcome EXCEPT !.query = q] : q \in {"ok", "raise"}}

\* get_movie(id): a movie of the catalog is found; for any other id the
\* data layer returns None, returns {} or raises.  Either lookup can fail.
Lookups(id) == IF id \in Catalog THEN {"found", "raise"} ELSE {"none", "empty", "raise"}

MoviesPage(d) == [movies |-> "movies", total |-> d.total]

(***************************************************************************)
(* GET /search                                                             *)
(***************************************************************************)
\* Faulty variant of Filters: the genre list is passed under the display key.
FiltersGenreKey(cast, genre, text) ==
    KeyIf(cast # <<>>, "cast", cast)
        @@ KeyIf(genre # <<>>, "genre", genre)
        @@ KeyIf(text.present /\ text.chars # <<>>, "text", text.chars)

\* filters, as api_search_movies builds it
Filters(cast, genre, text) ==
    KeyIf(cast # <<>>, "cast", cast)
        @@ KeyIf(genre # <<>>, "genres", genre)
        @@ KeyIf(text.present /\ text.chars # <<>>, "text", text.chars)

\* return_filters, as api_search_movies builds it
ReturnFilters(cast, genre, text) ==
    KeyIf(cast # <<>>, "cast", cast)
        @@ KeyIf(genre # <<>>, "genre", genre)
        @@ KeyIf(text.present /\ text.chars # <<>>, "search", text.chars)

GetMoviesCall(filters, page) ==
    [fn |-> "get_movies", filters |-> filters, page |-> page,
     per_page |-> MOVIES_PER_PAGE]

SearchMovies(r, d) ==
    LET page == ParsePage(r.page)
        call == GetMoviesCall(Filters(r.cast, r.genre, r.text), page)
    IN IF d.query = "raise" THEN Out(<<call>>, Propagate(DbError))
       ELSE Out(<<call>>,
                Json(("status" :> "success")
                       @@ ("movies" :> MoviesPage(d).movies)
                       @@ ("page" :> page)
                       @@ ("filters" :> ReturnFilters(r.cast, r.genre, r.text))
                       @@ ("entries_per_page" :> MOVIES_PER_PAGE)
                       @@ ("total_results" :> MoviesPage(d).total),
                     HTTP_OK))

SearchRequests ==
    {[NoRequest EXCEPT !.handler = "search", !.page = p, !.cast = c,
                       !.genre = g, !.text = t] :
        p \in PageArgs, c \in CastArgs, g \in GenreArgs, t \in TextArgs}

(***************************************************************************)
(* GET /                                                                   *)
(***************************************************************************)
GetMovies(r, d) ==
    LET call == [fn |-> "get_movies", filters |-> "None", page |-> 0,
                 per_page |-> MOVIES_PER_PAGE]
    IN IF d.query = "raise" THEN Out(<<call>>, Propagate(DbError))
       ELSE Out(<<call>>,
                Json(("movies" :> MoviesPage(d).movies)
                       @@ ("page" :> 0)
                       @@ ("filters" :> EmptyDict)
                       @@ ("entries_per_page" :> MOVIES_PER_PAGE)
                       @@ ("total_results" :> MoviesPage(d).total),
                     HTTP_OK))

(***************************************************************************)
(* The comment collection of the data layer                                *)
(***************************************************************************)
Users == {"alice", "bob"}

IdName == <<"c1", "c2", "c3", "c4", "c5", "c6">>

NoComment == [state |-> "absent", email |-> "", movie |-> "", text |-> ""]

Live(c) == c.state \in {"created", "edited"}

\* The comments of a movie, newest first.
RECURSIVE CommentsOf(_, _, _)
CommentsOf(store, movie, n) ==
    IF n = 0 THEN <<>>
    ELSE IF Live(store[n]) /\ store[n].movie = movie
         THEN <<[id |-> IdName[n], email |-> store[n].email,
                 text |-> store[n].text]>> \o CommentsOf(store, movie, n - 1)
         ELSE CommentsOf(store, movie, n - 1)

Movie(store, id) ==
    [id |-> id, lastupdated |-> "datetime",
     comments |-> CommentsOf(store, id, MaxComments)]

\* add_comment: a new comment under a fresh id, its author the user's email.
AddComment(store, nid, movie, email, text) ==
    [store EXCEPT ![nid] =
        [state |-> "created", email |-> email, movie |-> movie, text |-> text]]

Owned(store, cid, email) ==
    {i \in 1..MaxComments :
        IdName[i] = cid /\ Live(store[i]) /\ store[i].email = email}

\* update_comment: applied only to a comment whose author is the email given.
UpdateComment(store, cid, email, text) ==
    [i \in 1..MaxComments |->
        IF i \in Owned(store, cid, email)
        THEN [store[i] EXCEPT !.state = "edited", !.text = text]
        ELSE store[i]]

\* delete_comment: applied only to a comment whose author is the email given.
DeleteComment(store, cid, email) ==
    [i \in 1..MaxComments |->
        IF i \in Owned(store, cid, email)
        THEN [NoComment EXCEPT !.state = "deleted"]
        ELSE store[i]]

(***************************************************************************)
(* GET /id/<id>                                                            *)
(***************************************************************************)
UpdatedType(movie) ==
    IF movie.lastupdated = "datetime" THEN "<class 'datetime.datetime'>"
    ELSE "<class 'str'>"

GetMovieById(r, d, store) ==
    LET call == [fn |-> "get_movie", id |-> r.id]
    IN CASE d.look = "raise" -> Out(<<call>>, Propagate(DbError))
         [] d.look \in {"none", "empty"} ->
                Out(<<call>>, Json("status" :> "fail", HTTP_BAD_REQUEST))
         [] d.look = "found" ->
                Out(<<call>>,
                    Json(("status" :> "success")
                           @@ ("movie" :> Movie(store, r.id))
                           @@ ("updated_type" :> UpdatedType(Movie(store, r.id))),
                         HTTP_OK))

(***************************************************************************)
(* GET /countries                                                          *)
(***************************************************************************)
\* Faulty variant of MoviesByCountry: the failure envelope goes out with a 200.
MoviesByCountryFail200(r, d) ==
    LET call == [fn |-> "get_movies_by_country", countries |-> r.countries]
    IN IF d.query = "raise"
       THEN Out(<<call>>, Json(Fail(DbError), HTTP_OK))
       ELSE Out(<<call>>,
                Json(("status" :> "success") @@ ("titles" :> "titles"), HTTP_OK))

MoviesByCountry(r, d) ==
    LET call == [fn |-> "get_movies_by_country", countries |-> r.countries]
    IN IF d.query = "raise"
       THEN Out(<<call>>, Json(Fail(DbError), HTTP_BAD_REQUEST))
       ELSE Out(<<call>>,
                Json(("status" :> "success") @@ ("titles" :> "titles"), HTTP_OK))

(***************************************************************************)
(* GET /facet-search                                                       *)
(***************************************************************************)
FacetPage(d) ==
    [movies |-> "movies", runtime |-> "runtime", rating |-> "rating",
     total |-> d.total]

FacetedCall(filters, page) ==
    [fn |-> "get_movies_faceted", filters |-> filters, page |-> page,
     per_page |-> MOVIES_PER_PAGE]

FacetedSearch(r, d, filters, return_filters, page) ==
    LET call == FacetedCall(filters, page)
    IN IF d.query = "raise"
       THEN Out(<<call>>, Json(Fail(DbError), HTTP_OK))
       ELSE Out(<<call>>,
                Json(("status" :> "success")
                       @@ ("movies" :> FacetPage(d).movies)
                       @@ ("facets" :> [runtime |-> FacetPage(d).runtime,
                                        rating |-> FacetPage(d).rating])
                       @@ ("page" :> page)
                       @@ ("filters" :> return_filters)
                       @@ ("entries_per_page" :> MOVIES_PER_PAGE)
                       @@ ("total_results" :> FacetPage(d).total),
                     HTTP_OK))

\* Faulty variant of SearchMoviesFaceted: no fallback, the faceted query runs with
\* whatever filters there are.
SearchMoviesFacetedNoFallback(r, d) ==
    LET filters == KeyIf(r.cast # <<>>, "cast", r.cast)
    IN FacetedSearch(r, d, filters, filters, ParsePage(r.page))

SearchMoviesFaceted(r, d) ==
    LET page == ParsePage(r.page)
        filters == KeyIf(r.cast # <<>>, "cast", r.cast)
        return_filters == KeyIf(r.cast # <<>>, "cast", r.cast)
    IN IF DOMAIN filters = {} THEN SearchMovies(r, d)
       ELSE FacetedSearch(r, d, filters, return_filters, page)

(***************************************************************************)
(* GET /config-options                                                     *)
(***************************************************************************)
\* dict.get(key, default)
Get(dict, key, default) == IF key \in DOMAIN dict THEN dict[key] ELSE default

Configuration(r, d) ==
    LET call == [fn |-> "get_configuration"]
    IN IF d.query = "raise"
       THEN Out(<<call>>, Json(Fail(DbError), HTTP_OK))
       ELSE Out(<<call>>,
                Json(Merge(("status" :> "success")
                             @@ ("pool_size" :> d.config.pool_size)
                             @@ ("wtimeout" :>
                                    Get(d.config.w_concern, "wtimeout", "0")),
                           d.config.user_info),
                     HTTP_OK))

UserInfos ==
    {EmptyDict, "user" :> "m220student",
     ("user" :> "m220student") @@ ("role" :> "readWrite"),
     "status" :> "down", "pool_size" :> "1",
     ("user" :> "m220student") @@ ("wtimeout" :> "9")}

Configs ==
    {[pool_size |-> "50", w_concern |-> w, user_info |-> u] :
        w \in {EmptyDict, "wtimeout" :> "2500"}, u \in UserInfos}

ConfigOutcomes ==
    {[NoOutcome EXCEPT !.config = c] : c \in Configs}
        \cup {[NoOutcome EXCEPT !.query = "raise"]}

(***************************************************************************)
(* POST, PUT and DELETE /comment                                           *)
(***************************************************************************)
MovieIdVals == {JNull, JNum} \cup {JStr(m) : m \in MovieIds}

CommentVals == {JNull, JNum, JStr("hi")}

UpdatedVals == {JNull, JNum, JStr("edit")}

CommentIdVals == {JNull, JNum} \cup {JStr(IdName[i]) : i \in 1..MaxComments}

EmailVals == {JNull} \cup {JStr(u) : u \in Users}

\* expect(input, expectedType, field) of mflix.api.utils with expectedType
\* str: the input is returned when it is a string, and the check raises an
\* error naming the field otherwise.
ExpectOk(v) == v.type = "str"

ExpectError(field) == Exc("AssertionError", field)

Res(cs, r, store, nid) == [calls |-> cs, resp |-> r, store |-> store, nid |-> nid]

FailRes(cs, e, code, store, nid) == Res(cs, Json(Fail(e), code), store, nid)

\* get_movie(movie_id).get('comments') and the success envelope after it
Refetch(cs, r, d, movie, code, store, nid) ==
    LET all == Append(cs, [fn |-> "get_movie", id |-> movie])
    IN CASE d.look = "raise" -> FailRes(all, DbError, code, store, nid)
         [] d.look = "none" -> FailRes(all, AttributeError, code, store, nid)
         [] d.look = "empty" ->
                Res(all, Json(("status" :> "success") @@ ("comments" :> Absent),
                              code), store, nid)
         [] d.look = "found" ->
                Res(all,
                    Json(("status" :> "success")
                           @@ ("comments" :> Given(Movie(store, movie).comments)),
                         code), store, nid)

\* Faulty variant of PostComment: the comment is stored before the fields are checked.
PostCommentStoreFirst(r, d, store, nid) ==
    LET b == r.body
        add == [fn |-> "add_comment", movie_id |-> b.movie_id.val,
                email |-> r.email, comment |-> b.comment.val]
        stored == AddComment(store, nid, b.movie_id.val, r.email, b.comment.val)
    IN IF ~b.obj THEN FailRes(<<>>, AttributeError, HTTP_OK, store, nid)
       ELSE IF ~ExpectOk(b.movie_id)
       THEN FailRes(<<add>>, ExpectError("movie_id"), HTTP_OK, stored, nid + 1)
       ELSE IF ~ExpectOk(b.comment)
       THEN FailRes(<<add>>, ExpectError("comment"), HTTP_OK, stored, nid + 1)
       ELSE IF d.mut = "raise"
       THEN FailRes(<<add>>, DbError, HTTP_OK, store, nid)
       ELSE Refetch(<<add>>, r, d, b.movie_id.val, HTTP_OK, stored, nid + 1)

PostComment(r, d, store, nid) ==
    LET b == r.body
        add == [fn |-> "add_comment", movie_id |-> b.movie_id.val,
                email |-> r.email, comment |-> b.comment.val]
    IN IF ~b.obj THEN FailRes(<<>>, AttributeError, HTTP_OK, store, nid)
       ELSE IF ~ExpectOk(b.movie_id)
       THEN FailRes(<<>>, ExpectError("movie_id"), HTTP_OK, store, nid)
       ELSE IF ~ExpectOk(b.comment)
       THEN FailRes(<<>>, ExpectError("comment"), HTTP_OK, store, nid)
       ELSE IF d.mut = "raise"
       THEN FailRes(<<add>>, DbError, HTTP_OK, store, nid)
       ELSE Refetch(<<add>>, r, d, b.movie_id.val, HTTP_OK,
                    AddComment(store, nid, b.movie_id.val, r.email, b.comment.val),
                    nid + 1)

\* Faulty variant of UpdateAuthKey: the identity is taken from the request body.
UpdateAuthKeyFromBody(r) ==
    IF r.body.email.type = "str" THEN r.body.email.val ELSE r.email

\* user_email = User.from_claims(claims).email
UpdateAuthKey(r) == r.email

UpdateCommentHandler(r, d, store, nid) ==
    LET b == r.body
        upd == [fn |-> "update_comment", comment_id |-> b.comment_id.val,
                email |-> UpdateAuthKey(r), text |-> b.updated_comment.val,
                applied |-> Owned(store, b.comment_id.val, UpdateAuthKey(r)) # {}]
    IN IF ~b.obj THEN FailRes(<<>>, AttributeError, HTTP_OK, store, nid)
       ELSE IF ~ExpectOk(b.comment_id)
       THEN FailRes(<<>>, ExpectError("comment_id"), HTTP_OK, store, nid)
       ELSE IF ~ExpectOk(b.updated_comment)
       THEN FailRes(<<>>, ExpectError("updated_comment"), HTTP_OK, store, nid)
       ELSE IF ~ExpectOk(b.movie_id)
       THEN FailRes(<<>>, ExpectError("movie_id"), HTTP_OK, store, nid)
       ELSE IF d.mut = "raise"
       THEN FailRes(<<upd>>, DbError, HTTP_OK, store, nid)
       ELSE Refetch(<<upd>>, r, d, b.movie_id.val, HTTP_OK,
                    UpdateComment(store, b.comment_id.val, UpdateAuthKey(r),
                                  b.updated_comment.val),
                    nid)

\* user_email = User.from_claims(claims).email
DeleteAuthKey(r) == r.email

DeleteCommentHandler(r, d, store, nid) ==
    LET b == r.body
        del == [fn |-> "delete_comment", comment_id |-> b.comment_id.val,
                email |-> DeleteAuthKey(r),
                applied |-> Owned(store, b.comment_id.val, DeleteAuthKey(r)) # {}]
    IN IF ~b.obj THEN FailRes(<<>>, AttributeError, HTTP_OK, store, nid)
       ELSE IF ~ExpectOk(b.comment_id)
       THEN FailRes(<<>>, ExpectError("comment_id"), HTTP_OK, store, nid)
       ELSE IF ~ExpectOk(b.movie_id)
       THEN FailRes(<<>>, ExpectError("movie_id"), HTTP_OK, store, nid)
       ELSE IF d.mut = "raise"
       THEN FailRes(<<del>>, DbError, HTTP_OK, store, nid)
       ELSE Refetch(<<del>>, r, d, b.movie_id.val, HTTP_OK,
                    DeleteComment(store, b.comment_id.val, DeleteAuthKey(r)),
                    nid)

\* The requests that reach add_comment and have it return.
Adds(b, d) == b.obj /\ ExpectOk(b.movie_id) /\ ExpectOk(b.comment) /\ d.mut = "ok"

PostBodies ==
    {NoBody} \cup
    {[NoBody EXCEPT !.obj = TRUE, !.movie_id = m, !.comment = c] :
        m \in MovieIdVals, c \in CommentVals}

UpdateBodies ==
    {NoBody} \cup
    {[NoBody EXCEPT !.obj = TRUE, !.comment_id = i, !.updated_comment = u,
                    !.movie_id = m, !.email = e] :
        i \in CommentIdVals, u \in UpdatedVals, m \in MovieIdVals, e \in EmailVals}

DeleteBodies ==
    {NoBody} \cup
    {[NoBody EXCEPT !.obj = TRUE, !.comment_id = i, !.movie_id = m, !.email = e] :
        i \in CommentIdVals, m \in MovieIdVals, e \in EmailVals}

\* What the data layer can do with the calls of one comment request: the
\* mutation raises, or it returns and the lookup of the movie does as in
\* Lookups.  A request that fails its checks calls nothing.
CommentOutcomes(b, fields) ==
    IF b.obj /\ \A f \in fields : ExpectOk(b[f])
    THEN {[NoOutcome EXCEPT !.mut = "raise"]}
            \cup {[NoOutcome EXCEPT !.look = l] : l \in Lookups(b.movie_id.val)}
    ELSE {NoOutcome}

(***************************************************************************)
(* The handlers as actions                                                 *)
(***************************************************************************)
Handle(r, d, out, store, nid) ==
    /\ pc = "idle"
    /\ pc' = "done"
    /\ req' = r
    /\ dl' = d
    /\ calls' = out.calls
    /\ resp' = out.resp
    /\ comments' = store
    /\ nextId' = nid

api_get_movies ==
    \E d \in QueryOutcomes :
        LET r == [NoRequest EXCEPT !.handler = "list"]
        IN Handle(r, d, GetMovies(r, d), comments, nextId)

api_search_movies ==
    \E r \in SearchRequests, d \in QueryOutcomes :
        Handle(r, d, SearchMovies(r, d), comments, nextId)

api_get_movie_by_id ==
    \E id \in MovieIds :
        \E l \in Lookups(id) :
            LET r == [NoRequest EXCEPT !.handler = "by_id", !.id = id]
                d == [NoOutcome EXCEPT !.look = l]
            IN Handle(r, d, GetMovieById(r, d, comments), comments, nextId)

api_get_movies_by_country ==
    \E c \in CountryArgs, d \in QueryOutcomes :
        LET r == [NoRequest EXCEPT !.handler = "countries", !.countries = c]
        IN Handle(r, d, MoviesByCountry(r, d), comments, nextId)

api_search_movies_faceted ==
    \E s \in SearchRequests, d \in QueryOutcomes :
        LET r == [s EXCEPT !.handler = "facet"]
        IN Handle(r, d, SearchMoviesFaceted(r, d), comments, nextId)

get_conn_pool_size ==
    \E d \in ConfigOutcomes :
        LET r == [NoRequest EXCEPT !.handler = "config"]
        IN Handle(r, d, Configuration(r, d), comments, nextId)

api_post_comment ==
    \E u \in Users, b \in PostBodies :
        \E d \in CommentOutcomes(b, {"movie_id", "comment"}) :
            LET r == [NoRequest EXCEPT !.handler = "post", !.email = u, !.body = b]
            IN /\ Adds(b, d) => nextId <= MaxComments
               /\ LET out == PostComment(r, d, comments, nextId)
                  IN Handle(r, d, out, out.store, out.nid)

api_update_comment ==
    \E u \in Users, b \in UpdateBodies :
        \E d \in CommentOutcomes(b, {"comment_id", "updated_comment", "movie_id"}) :
            LET r == [NoRequest EXCEPT !.handler = "update", !.email = u, !.body = b]
                out == UpdateCommentHandler(r, d, comments, nextId)
            IN Handle(r, d, out, out.store, out.nid)

api_delete_comment ==
    \E u \in Users, b \in DeleteBodies :
        \E d \in CommentOutcomes(b, {"comment_id", "movie_id"}) :
            LET r == [NoRequest EXCEPT !.handler = "delete", !.email = u, !.body = b]
                out == DeleteCommentHandler(r, d, comments, nextId)
            IN Handle(r, d, out, out.store, out.nid)

(***************************************************************************)
(* The end of a request: its stack-local data is gone                      *)
(***************************************************************************)
Finish ==
    /\ pc = "done"
    /\ pc' = "idle"
    /\ req' = NoRequest
    /\ dl' = NoOutcome
    /\ calls' = <<>>
    /\ resp' = NoResp
    /\ UNCHANGED <<comments, nextId>>

Init ==
    /\ pc = "idle"
    /\ req = NoRequest
    /\ dl = NoOutcome
    /\ calls = <<>>
    /\ resp = NoResp
    /\ comments = [i \in 1..MaxComments |-> NoComment]
    /\ nextId = 1

Next ==
    \/ api_get_movies
    \/ api_search_movies
    \/ api_get_movie_by_id
    \/ api_get_movies_by_country
    \/ api_search_movies_faceted
    \/ get_conn_pool_size
    \/ api_post_comment
    \/ api_update_comment
    \/ api_delete_comment
    \/ Finish

Spec == Init /\ [][Next]_vars

(***************************************************************************)
(* Properties                                                              *)
(***************************************************************************)
Done(h) == pc = "done" /\ req.handler = h

Called(cs, fn) == \E i \in 1..Len(cs) : cs[i].fn = fn

\* What int() makes of each page value of PageArgs, worked out by hand.
PageTable(page) ==
    CASE page = Given(<<"0">>) -> 0
      [] page = Given(<<"1", "2">>) -> 12
      [] page = Given(<<"-", "1">>) -> 0 - 1
      [] page = Given(<<"+", "3">>) -> 3
      [] page = Given(<<" ", "2", " ">>) -> 2
      [] page = Given(<<"1", "_", "0">>) -> 10
      [] OTHER -> 0

\* The page a search or facet-search request leaves in the state: the one
\* passed to the data layer, and the one echoed when there is one.
PagePassed == calls[1].page

PageEchoed(p) == "page" \in DOMAIN resp.body => resp.body["page"] = p

\* C1: in search and facet-search, an absent page and a page that int()
\* rejects give the effective page 0, an integer string gives that integer,
\* and no response is an error unless the data layer raised.
C1_EffectivePage ==
    (Done("search") \/ Done("facet")) =>
        LET expected == IF ~req.page.present THEN 0
                        ELSE IF IntOk(req.page.chars) THEN IntVal(req.page.chars)
                        ELSE 0
        IN /\ Len(calls) = 1
           /\ PagePassed = expected
           /\ PagePassed = PageTable(req.page)
           /\ PageEchoed(expected)
           /\ dl.query = "ok" =>
                /\ resp.kind = "json"
                /\ resp.body["status"] = "success"
                /\ "page" \in DOMAIN resp.body

C1_Witness ==
    /\ Done("facet")
    /\ req.page = Given(<<"a", "b", "c">>)
    /\ req.cast # <<>>
    /\ resp.kind = "json"
    /\ resp.body["status"] = "success"
    /\ resp.body["page"] = 0
    /\ PagePassed = 0

\* C2: search passes get_movies a filter mapping with key cast iff the cast
\* list is non-empty, genres iff the genre list is non-empty and text iff
\* the text is non-empty, and no other key, with the effective page and page
\* size 20; the response's filters hold the same values under cast, genre
\* and search for the same conditions.
C2_Filters ==
    Done("search") =>
        LET f == calls[1].filters
            hasText == req.text.present /\ req.text.chars # <<>>
        IN /\ Len(calls) = 1
           /\ calls[1].fn = "get_movies"
           /\ calls[1].per_page = 20
           /\ calls[1].page = ParsePage(req.page)
           /\ DOMAIN f = {k \in {"cast", "genres", "text"} :
                            \/ k = "cast" /\ req.cast # <<>>
                            \/ k = "genres" /\ req.genre # <<>>
                            \/ k = "text" /\ hasText}
           /\ "cast" \in DOMAIN f => f["cast"] = req.cast
           /\ "genres" \in DOMAIN f => f["genres"] = req.genre
           /\ "text" \in DOMAIN f => f["text"] = req.text.chars
           /\ resp.kind = "json" =>
                LET rf == resp.body["filters"]
                IN /\ DOMAIN rf = {k \in {"cast", "genre", "search"} :
                                     \/ k = "cast" /\ req.cast # <<>>
                                     \/ k = "genre" /\ req.genre # <<>>
                                     \/ k = "search" /\ hasText}
                   /\ "cast" \in DOMAIN rf => rf["cast"] = req.cast
                   /\ "genre" \in DOMAIN rf => rf["genre"] = req.genre
                   /\ "search" \in DOMAIN rf => rf["search"] = req.text.chars

C2_Witness ==
    /\ Done("search")
    /\ req.cast = <<>>
    /\ req.genre = <<"Comedy">>
    /\ req.text = Given(<<>>)
    /\ DOMAIN calls[1].filters = {"genres"}
    /\ resp.kind = "json"
    /\ DOMAIN resp.body["filters"] = {"genre"}

\* C3: a facet-search request with no cast has the outcome search has for
\* the same request and the same data-layer outcome: the same get_movies
\* call and no faceted query, the same response, the same propagation of a
\* data-layer exception.
C3_FacetFallback ==
    (Done("facet") /\ req.cast = <<>>) =>
        LET o == SearchMovies([req EXCEPT !.handler = "search"], dl)
        IN /\ calls = o.calls
           /\ resp = o.resp
           /\ ~Called(calls, "get_movies_faceted")
           /\ calls[1].fn = "get_movies"
           /\ dl.query = "raise" <=> resp.kind = "exception"

C3_Witness ==
    /\ Done("facet")
    /\ req.cast = <<>>
    /\ req.genre # <<>>
    /\ req.text = Given(<<"l", "o", "v", "e">>)
    /\ resp.kind = "json"
    /\ resp.code = 200
    /\ DOMAIN resp.body["filters"] = {"genre", "search"}
    /\ DOMAIN calls[1].filters = {"genres", "text"}

\* C4: fetching a movie by id never throws: an id of no movie gets status
\* fail with a 400 whatever get_movie does with it (returns None, returns
\* {} or raises), and an existing movie gets status success, the movie and
\* a 200.
C4_ByIdNeverThrows ==
    Done("by_id") =>
        /\ req.id \notin Catalog =>
              /\ resp.kind = "json"
              /\ resp.code = 400
              /\ resp.body["status"] = "fail"
        /\ (req.id \in Catalog /\ dl.look = "found") =>
              /\ resp.kind = "json"
              /\ resp.code = 200
              /\ resp.body["status"] = "success"
              /\ resp.body["movie"].id = req.id

\* C5: a successful config response has status success, the data layer's
\* pool size and the write concern's wtimeout ('0' when absent), whatever
\* the keys of the user-info mapping merged into it.
C5_ConfigNotClobbered ==
    (Done("config") /\ dl.query = "ok") =>
        /\ resp.kind = "json"
        /\ \A k \in DOMAIN dl.config.user_info : k \in DOMAIN resp.body
        /\ resp.body["status"] = "success"
        /\ resp.body["pool_size"] = dl.config.pool_size
        /\ resp.body["wtimeout"] =
              IF "wtimeout" \in DOMAIN dl.config.w_concern
              THEN dl.config.w_concern["wtimeout"] ELSE "0"

BadField(v) == v.type # "str"

C7_AuthorOnly ==
    [][/\ \A i \in 1..MaxComments :
            LET a == comments[i]
                b == comments'[i]
            IN a # b =>
                 /\ pc' = "done"
                 /\ \/ /\ a.state = "absent"
                       /\ b.state = "created"
                       /\ req'.handler = "post"
                       /\ b.email = req'.email
                    \/ /\ Live(a)
                       /\ b.state = "edited"
                       /\ b.email = a.email
                       /\ b.movie = a.movie
                       /\ req'.handler = "update"
                       /\ req'.email = a.email
                    \/ /\ Live(a)
                       /\ b.state = "deleted"
                       /\ req'.handler = "delete"
                       /\ req'.email = a.email
       /\ \A k \in 1..Len(calls') :
            calls'[k].fn \in {"update_comment", "delete_comment"}
                => calls'[k].email = req'.email
      ]_vars

C7_Witness ==
    /\ Done("update")
    /\ req.email = "bob"
    /\ req.body.email = JStr("alice")
    /\ Len(calls) >= 1
    /\ calls[1].fn = "update_comment"
    /\ calls[1].applied
    /\ \E i \in 1..MaxComments :
          /\ comments[i].state = "edited"
          /\ comments[i].email = "bob"
          /\ IdName[i] = req.body.comment_id.val

\* Whether a validation check or a data-layer call of the request raised.
Raised ==
    CASE req.handler \in {"countries", "facet", "config"} -> dl.query = "raise"
      [] req.handler = "post" ->
            \/ ~req.body.obj \/ BadField(req.body.movie_id)
            \/ BadField(req.body.comment)
            \/ dl.mut = "raise" \/ dl.look \in {"raise", "none"}
      [] req.handler = "update" ->
            \/ ~req.body.obj \/ BadField(req.body.comment_id)
            \/ BadField(req.body.updated_comment) \/ BadField(req.body.movie_id)
            \/ dl.mut = "raise" \/ dl.look \in {"raise", "none"}
      [] req.handler = "delete" ->
            \/ ~req.body.obj \/ BadField(req.body.comment_id)
            \/ BadField(req.body.movie_id)
            \/ dl.mut = "raise" \/ dl.look \in {"raise", "none"}

\* C8: a guarded handler answers every exception of its checks and of its
\* data-layer call with {status: fail, error}, with a 400 in
\* movies-by-country and a 200 in facet-search with a cast, the three
\* comment handlers and config; movies-by-country answers success with
\* {status: success, titles} and a 200.
C8_Guarded ==
    (pc = "done"
       /\ \/ req.handler \in {"countries", "config", "post", "update", "delete"}
          \/ req.handler = "facet" /\ req.cast # <<>>) =>
        /\ resp.kind = "json"
        /\ Raised =>
             /\ DOMAIN resp.body = {"status", "error"}
             /\ resp.body["status"] = "fail"
             /\ resp.code = IF req.handler = "countries" THEN 400 ELSE 200
        /\ ~Raised =>
             /\ resp.body["status"] = "success" \/ req.handler = "config"
             /\ resp.code = 200
        /\ (req.handler = "countries" /\ ~Raised) =>
             DOMAIN resp.body = {"status", "titles"}

C8_Witness ==
    /\ Done("countries")
    /\ req.countries # <<>>
    /\ dl.query = "raise"
    /\ resp.kind = "json"
    /\ resp.code = 400
    /\ resp.body["status"] = "fail"
    /\ resp.body["error"] = DbError

\* C9: the page search and facet-search pass to the data layer and echo is
\* never negative, whatever the page parameter.
C9_PageNonNegative ==
    (Done("search") \/ Done("facet")) =>
        /\ PagePassed >= 0
        /\ "page" \in DOMAIN resp.body => resp.body["page"] >= 0

\* C10: when a comment handler answers status fail, the stored comments are
\* those before the request.
C10_FailKeepsComments ==
    [][(pc' = "done" /\ req'.handler \in {"post", "update", "delete"}
          /\ resp'.body["status"] = "fail")
        => comments' = comments
      ]_vars

====
